---- MODULE Spec2Model ----
(***************************************************************************)
(* A model of pypowerschool.powerschool.Client: the OAuth token cache, the *)
(* Authorization header, and the public request operations (fetch_item,    *)
(* fetch_items, fetch_metadata, post_data, powerquery, resource_count and  *)
(* the catalog method course_for_dcid), each followed request by request.  *)
(***************************************************************************)
EXTENDS Integers, Sequences, FiniteSets, TLC

\* ---------------------------------------------------------------- bounds
MaxTime == 2
MaxTTL == 2
MaxCount == 3
MaxPageSize == 2
MaxTokenRequests == 3
\* page requests a call is followed for when the server stops making progress
MaxPageNo == MaxCount

TTLs == 1..MaxTTL
Counts == 0..MaxCount
PageSizes == 1..MaxPageSize
\* two distinct credential sets, and the IDs the server may hand out
Creds == {"c1", "c2"}
FirstCreds == "c1"
NewIds == {1, 2}

VARIABLES
    now,            \* datetime.datetime.now(), in whole ticks
    creds,          \* base_url / client_id / client_secret of the instance
    token,          \* self.access_token_response
    headers,        \* self.headers (its Authorization entry)
    tokenRequests,  \* POSTs made to /oauth/access_token so far
    op,             \* the operation in progress ("idle" when none)
    pc,             \* its position
    cnt,            \* resource_count / items_count local
    srvPage,        \* page size the server uses for the collection
    data,           \* the accumulator `data`
    page_number,    \* page_number / params['page']
    sent,           \* requests sent to resource endpoints by this call
    diag,           \* diagnostics written to stderr by this call
    outcome,        \* how the call ended: a return kind or "raise"
    exc,            \* the exception that reached the caller
    retList,        \* the returned list
    retNum,         \* the returned integer / ID
    callTokenReqs,  \* token requests issued by this call
    expiredAtCall,  \* _access_token_expired() as evaluated by this call
    failed,         \* a request of this call has failed
    tokenFailed,    \* the latest token exchange failed: no fresh token since
    resp,           \* the answer to the call's single request
    pages,          \* the page answers this call has received and unwrapped
    issued,         \* when the cached token was issued, and its expires_in
    mode,           \* how callers run: "single", "threads" or "loop"
    running,        \* the task that holds the event loop (0: none)
    tasks,          \* the concurrent callers' calls
    args            \* the args parameter of the powerquery call in progress

vars == <<now, creds, token, headers, tokenRequests, op, pc, cnt,
          srvPage, data, page_number, sent, diag, outcome, exc, retList,
          retNum, callTokenReqs, expiredAtCall, failed, tokenFailed, resp,
          pages, issued, mode, running, tasks, args>>

frame == <<cnt, srvPage, data, page_number, sent, diag, outcome, exc,
           retList, retNum, callTokenReqs, expiredAtCall, failed, resp,
           pages, args>>

\* the concurrent callers
conc == <<mode, running, tasks>>

\* ------------------------------------------------------- token manager
NoToken == [present |-> FALSE, has_access |-> FALSE, exp |-> 0, creds |-> "none"]
NoHeaders == [present |-> FALSE, exp |-> 0, creds |-> "none"]

\* a token manager that never reuses the cached token
TokenValidNever(tok, t) == FALSE

\* the cached token is usable: hasattr(...) and expiration_datetime > now
TokenValid(tok, t) == tok.present /\ tok.exp > t

\* an expiry test that still trusts the token at its expiration instant
AccessTokenExpiredLate(tok, t) ==
    IF tok.present THEN (IF tok.exp >= t THEN FALSE ELSE TRUE) ELSE TRUE

\* _access_token_expired()
AccessTokenExpired(tok, t) ==
    IF tok.present THEN (IF tok.exp > t THEN FALSE ELSE TRUE) ELSE TRUE

\* what the token endpoint can answer
TokenResponses ==
    [kind : {"transport"}, error : {FALSE}, ttl : {0}]
    \cup [kind : {"no_expires"}, error : BOOLEAN, ttl : {0}]
    \cup [kind : {"no_token", "ok"}, error : BOOLEAN, ttl : TTLs]

\* an expiration that forgets the time of the exchange
ExpirationFromZero(t, ttl) == ttl

\* expiration_datetime = now + timedelta(seconds=int(expires_in))
Expiration(t, ttl) == t + ttl

\* self.access_token_response after the exchange answered r at time t
TokenAfter(tok, r, t, c) ==
    IF r.kind \in {"transport", "no_expires"} THEN tok
    ELSE [present |-> TRUE, has_access |-> (r.kind = "ok"),
          exp |-> Expiration(t, r.ttl), creds |-> c]

\* the exchange behind the cached token: its time and declared expires_in
NoIssue == [at |-> 0, ttl |-> 0]

IssuedAfter(iss, r, t) ==
    IF r.kind \in {"transport", "no_expires"} THEN iss
    ELSE [at |-> t, ttl |-> r.ttl]

\* the exception _access_token raises on answer r ("none": it returns)
TokenExc(r) ==
    CASE r.kind = "transport" -> "RequestError"
      [] r.kind = "no_expires" -> "KeyError"
      [] r.kind = "no_token" -> "KeyError"
      [] OTHER -> "none"

\* the Authorization header built from a cached token
Bearer(tok) == [present |-> TRUE, exp |-> tok.exp, creds |-> tok.creds]

\* stderr lines
AuthDiag(r) == IF r.error THEN {"auth_error"} ELSE {}

InitDiag(e) ==
    CASE e = "RequestError" -> {"init_request_error"}
      [] e = "none" -> {}
      [] OTHER -> {"init_unknown_error"}

\* ------------------------------------------------------------- the frame
\* the concurrent callers and a call that has not started
Tasks == {1, 2}

IdleTask == [op |-> "idle", pc |-> "idle", obs |-> FALSE, cnt |-> 0,
             psize |-> 1, len |-> 0, page |-> 1, out |-> "none"]

\* powerquery's args: left out (None), an empty dictionary, or one with
\* arguments in it; other operations take none
NoArgs == "none"

Args == {NoArgs, "empty", "a1"}

ArgsOf(o) == IF o = "powerquery" THEN Args ELSE {NoArgs}

\* Python's truth value of args
Truthy(a) == a \notin {NoArgs, "empty"}

\* json.dumps(args)
Dumps(a) ==
    CASE a = NoArgs -> "null"
      [] a = "empty" -> "{}"
      [] OTHER -> "{\"a\": 1}"

\* a variant that always serialises args
BodyAlwaysDumps(a) == Dumps(a)

\* body = json.dumps(args) if args else '{}'
Body(a) == IF Truthy(a) THEN Dumps(a) ELSE "{}"

\* no answer received yet
NoResponse == [kind |-> "none", insert_count |-> 0, status |-> "none", id |-> 0]

IdleFrame ==
    /\ cnt = 0
    /\ srvPage = 1
    /\ data = <<>>
    /\ page_number = 1
    /\ sent = <<>>
    /\ diag = {}
    /\ outcome = "none"
    /\ exc = "none"
    /\ retList = <<>>
    /\ retNum = 0
    /\ callTokenReqs = 0
    /\ expiredAtCall = FALSE
    /\ failed = FALSE
    /\ resp = NoResponse
    /\ pages = <<>>
    /\ args = NoArgs

\* the state after the first Client(url, client_id, client_secret)
Constructed ==
    /\ now = 0
    /\ \E c \in {FirstCreds}, r \in TokenResponses :
          /\ creds = c
          /\ token = TokenAfter(NoToken, r, 0, c)
          /\ headers = IF TokenExc(r) = "none"
                       THEN Bearer(TokenAfter(NoToken, r, 0, c))
                       ELSE NoHeaders
          /\ tokenFailed = (TokenExc(r) # "none")
          /\ issued = IssuedAfter(NoIssue, r, 0)
    /\ tokenRequests = 1
    /\ op = "idle"
    /\ pc = "idle"
    /\ IdleFrame
    /\ running = 0
    /\ tasks = [i \in Tasks |-> IdleTask]

\* one caller at a time
Init ==
    /\ Constructed
    /\ mode = "single"

\* time passes
Tick ==
    /\ now < MaxTime
    /\ now' = now + 1
    /\ UNCHANGED <<creds, token, headers, tokenRequests, op, pc,
                   tokenFailed>>
    /\ UNCHANGED frame
    /\ UNCHANGED <<issued, conc>>

\* ------------------------------------------------------ call bookkeeping
CheckedOps == {"fetch_item", "course_for_dcid", "fetch_items", "post_data",
               "powerquery", "resource_count"}
CountOps == {"fetch_items", "powerquery", "resource_count"}
PagedOps == {"fetch_items", "powerquery"}
SingleOps == {"fetch_item", "course_for_dcid", "fetch_metadata", "post_data"}

\* where an operation goes once it holds a header: its first request
FirstSend(o) == IF o \in CountOps THEN "count_send" ELSE "send"

\* the state of the Authorization header a request carries when it leaves
AuthState(h, t) ==
    IF ~h.present THEN "missing"
    ELSE IF h.exp > t THEN "valid" ELSE "expired"

\* the HTTP method an operation uses for its requests
Method(o) == IF o \in {"powerquery", "post_data"} THEN "POST" ELSE "GET"

\* the body its requests carry
RequestBody(o, a) ==
    CASE o = "powerquery" -> Body(a)
      [] o = "post_data" -> "post_data"
      [] OTHER -> "none"

\* a request as it leaves the client
Request(kind, page) ==
    [kind |-> kind, page |-> page, auth |-> AuthState(headers, now),
     method |-> Method(op), body |-> RequestBody(op, args)]

\* the call ends by raising e
Raise(e) ==
    /\ pc' = "done"
    /\ outcome' = "raise"
    /\ exc' = e
    /\ retList' = <<>>
    /\ retNum' = 0

\* the call ends by returning
ReturnList(l) ==
    /\ pc' = "done"
    /\ outcome' = "list"
    /\ exc' = "none"
    /\ retList' = l
    /\ retNum' = 0

ReturnInt(n) ==
    /\ pc' = "done"
    /\ outcome' = "int"
    /\ exc' = "none"
    /\ retList' = <<>>
    /\ retNum' = n

ReturnKind(k) ==
    /\ pc' = "done"
    /\ outcome' = k
    /\ exc' = "none"
    /\ retList' = <<>>
    /\ retNum' = 0

\* a public operation that starts with `if self._access_token_expired():`
StartChecked(o) ==
    /\ op = "idle"
    /\ tokenRequests < MaxTokenRequests
    /\ op' = o
    /\ expiredAtCall' = AccessTokenExpired(token, now)
    /\ pc' = IF AccessTokenExpired(token, now) THEN "refresh" ELSE FirstSend(o)
    /\ UNCHANGED <<now, creds, token, headers, tokenRequests, tokenFailed>>
    /\ UNCHANGED <<cnt, srvPage, data, page_number, sent, diag, outcome, exc,
                   retList, retNum, callTokenReqs, failed, resp>>
    /\ args' \in ArgsOf(o)
    /\ UNCHANGED <<pages, issued, conc>>

CallFetchItem == StartChecked("fetch_item")

CallCourseForDcid == StartChecked("course_for_dcid")

CallFetchItems == StartChecked("fetch_items")

CallPostData == StartChecked("post_data")

CallPowerquery == StartChecked("powerquery")

CallResourceCount == StartChecked("resource_count")

\* fetch_metadata goes straight to its request
CallFetchMetadata ==
    /\ op = "idle"
    /\ op' = "fetch_metadata"
    /\ pc' = "send"
    /\ UNCHANGED <<now, creds, token, headers, tokenRequests, tokenFailed>>
    /\ UNCHANGED frame
    /\ UNCHANGED <<issued, conc>>

\* a variant in which every construction makes an instance of its own, with
\* nothing cached
ConstructFresh(c) ==
    /\ op = "idle"
    /\ tokenRequests < MaxTokenRequests
    /\ creds' = c
    /\ token' = NoToken
    /\ op' = "init"
    /\ pc' = "refresh"
    /\ UNCHANGED <<now, headers, tokenRequests, tokenFailed>>
    /\ UNCHANGED frame
    /\ UNCHANGED <<issued, conc>>

\* Client(url, client_id, client_secret) again: __new__ hands back the one
\* instance and __init__ runs on it
Construct(c) ==
    /\ op = "idle"
    /\ tokenRequests < MaxTokenRequests
    /\ creds' = c
    /\ op' = "init"
    /\ pc' = "refresh"
    /\ UNCHANGED <<now, token, headers, tokenRequests, tokenFailed>>
    /\ UNCHANGED frame
    /\ UNCHANGED <<issued, conc>>

\* _access_token() finds the cached token still good and returns it
RefreshCached ==
    /\ pc = "refresh"
    /\ TokenValid(token, now)
    /\ IF op = "init"
       THEN /\ headers' = IF token.has_access THEN Bearer(token) ELSE headers
            /\ diag' = diag \cup (IF token.has_access THEN {}
                                  ELSE InitDiag("KeyError"))
            /\ ReturnKind("constructed")
       ELSE /\ IF ~token.has_access THEN Raise("KeyError") /\ UNCHANGED headers
               ELSE IF ~headers.present
                    THEN Raise("AttributeError") /\ UNCHANGED headers
               ELSE /\ headers' = Bearer(token)
                    /\ pc' = FirstSend(op)
                    /\ UNCHANGED <<outcome, exc, retList, retNum>>
            /\ UNCHANGED diag
    /\ UNCHANGED <<now, creds, token, tokenRequests, op, tokenFailed>>
    /\ UNCHANGED <<cnt, srvPage, data, page_number, sent, callTokenReqs,
                   expiredAtCall, failed, resp>>
    /\ UNCHANGED <<pages, issued, conc, args>>

\* _access_token() POSTs to /oauth/access_token and gets the answer r
Refresh(r) ==
    /\ pc = "refresh"
    /\ ~TokenValid(token, now)
    /\ tokenRequests' = tokenRequests + 1
    /\ callTokenReqs' = callTokenReqs + 1
    /\ token' = TokenAfter(token, r, now, creds)
    /\ tokenFailed' = (TokenExc(r) # "none")
    /\ issued' = IssuedAfter(issued, r, now)
    /\ IF op = "init"
       THEN /\ headers' = IF TokenExc(r) = "none"
                          THEN Bearer(TokenAfter(token, r, now, creds))
                          ELSE headers
            /\ diag' = diag \cup AuthDiag(r) \cup InitDiag(TokenExc(r))
            /\ ReturnKind("constructed")
       ELSE /\ diag' = diag \cup AuthDiag(r)
            /\ IF TokenExc(r) # "none"
               THEN Raise(TokenExc(r)) /\ UNCHANGED headers
               ELSE IF ~headers.present
                    THEN Raise("AttributeError") /\ UNCHANGED headers
               ELSE /\ headers' = Bearer(TokenAfter(token, r, now, creds))
                    /\ pc' = FirstSend(op)
                    /\ UNCHANGED <<outcome, exc, retList, retNum>>
    /\ UNCHANGED <<now, creds, op>>
    /\ UNCHANGED <<cnt, srvPage, data, page_number, sent, expiredAtCall,
                   failed, resp>>
    /\ UNCHANGED <<pages, conc, args>>

\* --------------------------------------------------- the remote server
\* the records of page k of a collection of n records served p per page
PageSlice(n, p, k) ==
    LET first == (k - 1) * p
        rest == n - first
        len == IF rest <= 0 THEN 0 ELSE IF rest < p THEN rest ELSE p
    IN [i \in 1..len |-> first + i]

\* answers to GET url/count and POST endpoint/count
CountResponses ==
    [kind : {"ok"}, count : Counts, page : PageSizes]
    \cup [kind : {"transport", "nokey"}, count : {0}, page : {1}]

\* answers to a page request
PageOutcomes(o) ==
    IF o = "fetch_items"
    THEN {"list", "object", "empty", "nokey", "transport"}
    ELSE {"list", "empty", "validation", "message", "transport"}

\* the records a successful page answer holds: the page's records, or none
\* when the server serves an empty page
PageBody(k, slice) == IF k = "empty" THEN <<>> ELSE slice

\* the collection ran dry after it was counted: a page came back empty, and
\* so does every later one
RanDry(pp) == \E i \in 1..Len(pp) : pp[i].recs = <<>>

\* a single object, or a list
PageShape(k) == IF k = "object" THEN "object" ELSE "list"

\* answers to a single GET, and to the POST of post_data
SingleResponses ==
    [kind : {"ok", "nokey", "transport"}, insert_count : {0},
     status : {"none"}, id : {0}]
    \cup [kind : {"post"}, insert_count : 0..2,
          status : {"SUCCESS", "ERROR"}, id : NewIds]

\* ------------------------------------------------------- resource_count
\* data.json()["resource"]["count"], or 0 from the except branch
CountResult(r) == IF r.kind = "ok" THEN r.count ELSE 0

\* count_response.json().get('count', 0)
ItemsCount(r) == IF r.kind = "ok" THEN r.count ELSE 0

\* ------------------------------------------------------ the paging loop
\* a loop that asks for one more page once the count is reached
LoopContinuesInclusive(len, n) == len <= n

\* while len(data) < resource_count
LoopContinues(len, n) == len < n

\* a loop that asks for the same page again
NextPageSame(k) == k

\* a loop that steps over every other page
NextPageSkip(k) == k + 2

\* page_number += 1 / params['page'] = params['page'] + 1
NextPage(k) == k + 1

\* an unwrapping that has no place for a single object
UnwrapListOnly(shape, slice) == IF shape = "list" THEN slice ELSE <<>>

\* a list is taken as it is, a single object becomes a one-element list
Unwrap(shape, slice) == IF shape = "list" THEN slice ELSE <<slice[1]>>

\* an accumulator that puts the new records in front
ExtendFront(d, recs) == recs \o d

\* data.extend(...)
Extend(d, recs) == d \o recs

\* a failure branch that hands back what was accumulated so far
FailureResultPartial(d) == d

\* `return []` of the except branches
FailureResult(d) == <<>>

\* the stderr line of a failed page
PageDiag(o, k) ==
    IF o = "fetch_items" THEN "items_error"
    ELSE CASE k = "validation" -> "pq_validation"
           [] k = "message" -> "pq_message"
           [] OTHER -> "pq_unexpected"

\* the loop test, then either the next page or `return data`
LoopOrReturn(d, n) ==
    IF LoopContinues(Len(d), n)
    THEN /\ pc' = "page_send"
         /\ UNCHANGED <<outcome, exc, retList, retNum>>
    ELSE ReturnList(d)

\* the count request leaves (or fails on the missing self.headers)
SendCount ==
    /\ pc = "count_send"
    /\ IF headers.present
       THEN /\ sent' = Append(sent, Request("count", 0))
            /\ pc' = "count_recv"
            /\ UNCHANGED <<cnt, diag, failed, outcome, exc, retList, retNum>>
       ELSE /\ UNCHANGED <<sent, cnt, failed>>
            /\ IF op = "powerquery"
               THEN Raise("AttributeError") /\ UNCHANGED diag
               ELSE /\ diag' = diag \cup {"count_error"}
                    /\ IF op = "resource_count" THEN ReturnInt(0)
                       ELSE LoopOrReturn(data, 0)
    /\ UNCHANGED <<now, creds, token, headers, tokenRequests, op,
                   tokenFailed>>
    /\ UNCHANGED <<srvPage, data, page_number, callTokenReqs, expiredAtCall,
                   resp>>
    /\ UNCHANGED <<pages, issued, conc, args>>

\* the count request is answered
RecvCount(r) ==
    /\ pc = "count_recv"
    /\ srvPage' = r.page
    /\ failed' = (r.kind # "ok")
    /\ CASE op = "resource_count" ->
              /\ ReturnInt(CountResult(r))
              /\ diag' = IF r.kind = "ok" THEN diag
                         ELSE diag \cup {"count_error"}
              /\ UNCHANGED cnt
         [] op = "fetch_items" ->
              /\ cnt' = CountResult(r)
              /\ diag' = IF r.kind = "ok" THEN diag
                         ELSE diag \cup {"count_error"}
              /\ LoopOrReturn(data, CountResult(r))
         [] OTHER ->
              /\ UNCHANGED diag
              /\ IF r.kind = "transport"
                 THEN Raise("RequestError") /\ UNCHANGED cnt
                 ELSE /\ cnt' = ItemsCount(r)
                      /\ LoopOrReturn(data, ItemsCount(r))
    /\ UNCHANGED <<now, creds, token, headers, tokenRequests, op,
                   tokenFailed>>
    /\ UNCHANGED <<data, page_number, sent, callTokenReqs, expiredAtCall,
                   resp>>
    /\ UNCHANGED <<pages, issued, conc, args>>

\* a page request leaves with page = page_number
SendPage ==
    /\ pc = "page_send"
    /\ page_number <= MaxPageNo
    /\ sent' = Append(sent, Request("page", page_number))
    /\ pc' = "page_recv"
    /\ UNCHANGED <<now, creds, token, headers, tokenRequests, op,
                   tokenFailed>>
    /\ UNCHANGED <<cnt, srvPage, data, page_number, diag, outcome, exc,
                   retList, retNum, callTokenReqs, expiredAtCall, failed, resp>>
    /\ UNCHANGED <<pages, issued, conc, args>>

\* a page request is answered
RecvPage(k) ==
    /\ pc = "page_recv"
    /\ k \in PageOutcomes(op)
    /\ k = "object" => Len(PageSlice(cnt, srvPage, page_number)) = 1
    /\ k \in {"list", "object"} => ~RanDry(pages)
    /\ IF k \in {"list", "object", "empty"}
       THEN LET body == PageBody(k, PageSlice(cnt, srvPage, page_number))
                recs == Unwrap(PageShape(k), body)
            IN /\ data' = Extend(data, recs)
               /\ pages' = Append(pages, [shape |-> PageShape(k),
                                          recs |-> body])
               /\ page_number' = NextPage(page_number)
               /\ LoopOrReturn(Extend(data, recs), cnt)
               /\ UNCHANGED <<diag, failed>>
       ELSE /\ diag' = diag \cup {PageDiag(op, k)}
            /\ failed' = TRUE
            /\ ReturnList(FailureResult(data))
            /\ UNCHANGED <<data, page_number, pages>>
    /\ UNCHANGED <<now, creds, token, headers, tokenRequests, op,
                   tokenFailed>>
    /\ UNCHANGED <<cnt, srvPage, sent, callTokenReqs, expiredAtCall, resp>>
    /\ UNCHANGED <<issued, conc, args>>

\* ------------------------------------------------- single-request calls
\* post_data's reading of the response
PostSucceeded(r) == r.insert_count = 1 /\ r.status = "SUCCESS"

\* the one request of fetch_item, course_for_dcid, fetch_metadata, post_data
Send ==
    /\ pc = "send"
    /\ IF headers.present
       THEN /\ sent' = Append(sent, Request(op, 0))
            /\ pc' = "recv"
            /\ UNCHANGED <<diag, failed, outcome, exc, retList, retNum>>
       ELSE /\ UNCHANGED <<sent, failed>>
            /\ IF op = "post_data"
               THEN ReturnKind("None") /\ diag' = diag \cup {"post_error"}
               ELSE Raise("AttributeError") /\ UNCHANGED diag
    /\ UNCHANGED <<now, creds, token, headers, tokenRequests, op,
                   tokenFailed>>
    /\ UNCHANGED <<cnt, srvPage, data, page_number, callTokenReqs,
                   expiredAtCall, resp>>
    /\ UNCHANGED <<pages, issued, conc, args>>

\* its answer
Recv(r) ==
    /\ pc = "recv"
    /\ (r.kind = "post") => (op = "post_data")
    /\ (r.kind = "ok") => (op # "post_data")
    /\ failed' = (r.kind \in {"transport", "nokey"})
    /\ resp' = r
    /\ CASE op = "post_data" ->
              IF r.kind = "post"
              THEN /\ IF PostSucceeded(r) THEN ReturnInt(r.id)
                      ELSE ReturnKind("None")
                   /\ UNCHANGED diag
              ELSE /\ ReturnKind("None")
                   /\ diag' = diag \cup {"post_error"}
         [] op = "fetch_item" ->
              /\ IF r.kind = "transport" THEN Raise("RequestError")
                 ELSE ReturnKind("response")
              /\ UNCHANGED diag
         [] OTHER ->
              /\ CASE r.kind = "transport" -> Raise("RequestError")
                   [] r.kind = "nokey" -> Raise("KeyError")
                   [] OTHER -> ReturnKind("dict")
              /\ UNCHANGED diag
    /\ UNCHANGED <<now, creds, token, headers, tokenRequests, op,
                   tokenFailed>>
    /\ UNCHANGED <<cnt, srvPage, data, page_number, sent, callTokenReqs,
                   expiredAtCall>>
    /\ UNCHANGED <<pages, issued, conc, args>>

\* the caller takes the result; the client is ready for the next call
Return ==
    /\ pc = "done"
    /\ op' = "idle"
    /\ pc' = "idle"
    /\ cnt' = 0
    /\ srvPage' = 1
    /\ data' = <<>>
    /\ page_number' = 1
    /\ sent' = <<>>
    /\ diag' = {}
    /\ outcome' = "none"
    /\ exc' = "none"
    /\ retList' = <<>>
    /\ retNum' = 0
    /\ callTokenReqs' = 0
    /\ expiredAtCall' = FALSE
    /\ failed' = FALSE
    /\ resp' = NoResponse
    /\ pages' = <<>>
    /\ args' = NoArgs
    /\ UNCHANGED <<now, creds, token, headers, tokenRequests,
                   tokenFailed>>
    /\ UNCHANGED <<issued, conc>>

Next ==
    \/ Tick
    \/ \E c \in Creds : Construct(c)
    \/ CallFetchItem
    \/ CallCourseForDcid
    \/ CallFetchItems
    \/ CallFetchMetadata
    \/ CallPostData
    \/ CallPowerquery
    \/ CallResourceCount
    \/ RefreshCached
    \/ \E r \in TokenResponses : Refresh(r)
    \/ SendCount
    \/ \E r \in CountResponses : RecvCount(r)
    \/ SendPage
    \/ \E k \in PageOutcomes(op) : RecvPage(k)
    \/ Send
    \/ \E r \in SingleResponses : Recv(r)
    \/ Return

Spec == Init /\ [][Next]_vars

\* ------------------------------------------------ concurrent callers
\* the operations the concurrent callers use: caller 1 may also page
\* through a collection, the others make single requests
ConcOps(i) ==
    IF i = 1 THEN {"fetch_item", "post_data", "fetch_items"}
    ELSE {"fetch_item", "post_data"}

\* callers that are about to ask for a token
Refreshing == {j \in Tasks : tasks[j].pc = "refresh"}

\* a variant in which the paging loop awaits its pages
YieldsAtPages(o, p) ==
    \/ p \in {"idle", "done", "page_recv"}
    \/ o \in {"fetch_item", "post_data"} /\ p = "recv"

\* a coroutine gives the event loop back where it awaits the network, and
\* when it has finished
Yields(o, p) ==
    \/ p \in {"idle", "done"}
    \/ o \in {"fetch_item", "post_data"} /\ p = "recv"

\* caller i can take a step: threads run freely, coroutines of one event
\* loop run while no other coroutine holds it
MayRun(i) == mode = "threads" \/ running \in {0, i}

\* who holds the event loop once caller i is in state t
Holder(i, t) == IF mode = "loop" /\ ~Yields(t.op, t.pc) THEN i ELSE 0

\* another caller's token request is in flight
InFlight(i) == \E j \in Tasks \ {i} : tasks[j].pc = "token_wait"

\* a variant with one token request in flight at a time
RefreshNeededSingleFlight(tok, t, inflight) ==
    AccessTokenExpired(tok, t) /\ ~inflight

\* _access_token() of a caller goes to the token endpoint: the cache alone
\* decides, a request in flight is not looked at
RefreshNeeded(tok, t, inflight) == AccessTokenExpired(tok, t)

\* caller i steps to t
TaskStep(i, t) ==
    /\ MayRun(i)
    /\ tasks' = [tasks EXCEPT ![i] = t]
    /\ running' = Holder(i, t)
    /\ UNCHANGED <<mode, creds, op, pc>>
    /\ UNCHANGED frame

\* caller i finishes with result kind k; the locals of the call are gone
Finished(i, k) ==
    [IdleTask EXCEPT !.op = tasks[i].op, !.pc = "done", !.out = k]

\* the page answers while callers overlap: the collection keeps its size
ConcPageOutcomes == PageOutcomes("fetch_items") \ {"empty"}

\* caller i has set its Authorization header and goes on to its request
Authorized(i) ==
    [tasks[i] EXCEPT !.pc = FirstSend(tasks[i].op), !.obs = FALSE]

\* caller i enters operation o and evaluates _access_token_expired()
TStart(i, o) ==
    /\ tasks[i].pc = "idle"
    /\ o \in ConcOps(i)
    /\ tokenRequests + Cardinality(Refreshing) < MaxTokenRequests
    /\ LET e == AccessTokenExpired(token, now)
       IN TaskStep(i, [IdleTask EXCEPT !.op = o, !.obs = e,
                         !.pc = IF e THEN "refresh" ELSE FirstSend(o)])
    /\ UNCHANGED <<now, token, headers, tokenRequests, tokenFailed, issued>>

\* _access_token() of caller i finds a good token in the cache
TRefreshCached(i) ==
    /\ tasks[i].pc = "refresh"
    /\ ~RefreshNeeded(token, now, InFlight(i))
    /\ IF ~token.has_access \/ ~headers.present
       THEN TaskStep(i, Finished(i, "raise")) /\ UNCHANGED headers
       ELSE /\ headers' = Bearer(token)
            /\ TaskStep(i, Authorized(i))
    /\ UNCHANGED <<now, token, tokenRequests, tokenFailed, issued>>

\* _access_token() of caller i POSTs to /oauth/access_token
TTokenSend(i) ==
    /\ tasks[i].pc = "refresh"
    /\ RefreshNeeded(token, now, InFlight(i))
    /\ tokenRequests' = tokenRequests + 1
    /\ TaskStep(i, [tasks[i] EXCEPT !.pc = "token_wait"])
    /\ UNCHANGED <<now, token, headers, tokenFailed, issued>>

\* the token endpoint answers caller i with r
TTokenRecv(i, r) ==
    /\ tasks[i].pc = "token_wait"
    /\ token' = TokenAfter(token, r, now, creds)
    /\ tokenFailed' = (TokenExc(r) # "none")
    /\ issued' = IssuedAfter(issued, r, now)
    /\ IF TokenExc(r) # "none" \/ ~headers.present
       THEN TaskStep(i, Finished(i, "raise")) /\ UNCHANGED headers
       ELSE /\ headers' = Bearer(TokenAfter(token, r, now, creds))
            /\ TaskStep(i, Authorized(i))
    /\ UNCHANGED <<now, tokenRequests>>

\* caller i sends its single request and awaits the answer
TSend(i) ==
    /\ tasks[i].pc = "send"
    /\ TaskStep(i, [tasks[i] EXCEPT !.pc = "recv"])
    /\ UNCHANGED <<now, token, headers, tokenRequests, tokenFailed, issued>>

\* the answer arrives and caller i resumes: fetch_item hands it back or lets
\* the failure through, post_data turns a failure into None
TRecv(i, ok) ==
    /\ tasks[i].pc = "recv"
    /\ TaskStep(i, Finished(i, IF ok THEN "value"
                               ELSE IF tasks[i].op = "fetch_item" THEN "raise"
                               ELSE "soft"))
    /\ UNCHANGED <<now, token, headers, tokenRequests, tokenFailed, issued>>

\* fetch_items of caller i: resource_count sends its request
TCountSend(i) ==
    /\ tasks[i].pc = "count_send"
    /\ TaskStep(i, [tasks[i] EXCEPT !.pc = "count_recv"])
    /\ UNCHANGED <<now, token, headers, tokenRequests, tokenFailed, issued>>

\* ... and gets r; the server serves the collection r.page records per page
TCountRecv(i, r) ==
    /\ tasks[i].pc = "count_recv"
    /\ LET n == CountResult(r)
       IN TaskStep(i, IF LoopContinues(0, n)
                      THEN [tasks[i] EXCEPT !.pc = "page_send", !.cnt = n,
                                            !.psize = r.page]
                      ELSE Finished(i, "value"))
    /\ UNCHANGED <<now, token, headers, tokenRequests, tokenFailed, issued>>

\* fetch_items of caller i requests its next page
TPageSend(i) ==
    /\ tasks[i].pc = "page_send"
    /\ TaskStep(i, [tasks[i] EXCEPT !.pc = "page_recv"])
    /\ UNCHANGED <<now, token, headers, tokenRequests, tokenFailed, issued>>

\* ... and gets the page answer k
TPageRecv(i, k) ==
    /\ tasks[i].pc = "page_recv"
    /\ LET t == tasks[i]
           slice == PageSlice(t.cnt, t.psize, t.page)
           got == t.len + Len(Unwrap(PageShape(k), PageBody(k, slice)))
       IN /\ k = "object" => Len(slice) = 1
          /\ IF k \in {"list", "object"}
             THEN TaskStep(i, IF LoopContinues(got, t.cnt)
                              THEN [t EXCEPT !.pc = "page_send", !.len = got,
                                             !.page = NextPage(t.page)]
                              ELSE Finished(i, "value"))
             ELSE TaskStep(i, Finished(i, "soft"))
    /\ UNCHANGED <<now, token, headers, tokenRequests, tokenFailed, issued>>

\* the caller takes the result of call i
TReturn(i) ==
    /\ tasks[i].pc = "done"
    /\ TaskStep(i, IdleTask)
    /\ UNCHANGED <<now, token, headers, tokenRequests, tokenFailed, issued>>

\* the steps of caller i
TaskNext(i) ==
    \/ \E o \in ConcOps(i) : TStart(i, o)
    \/ TRefreshCached(i)
    \/ TTokenSend(i)
    \/ \E r \in TokenResponses : TTokenRecv(i, r)
    \/ TSend(i)
    \/ \E ok \in BOOLEAN : TRecv(i, ok)
    \/ TCountSend(i)
    \/ \E r \in CountResponses : TCountRecv(i, r)
    \/ TPageSend(i)
    \/ \E k \in ConcPageOutcomes : TPageRecv(i, k)
    \/ TReturn(i)

\* callers in threads of their own, or coroutines of one event loop
InitConc ==
    /\ Constructed
    /\ mode \in {"threads", "loop"}

NextConc ==
    \/ Tick
    \/ \E i \in Tasks : TaskNext(i)

SpecConc == InitConc /\ [][NextConc]_vars


\* =================================================================== claims
CeilDiv(n, p) == (n + p - 1) \div p

PageRequests == SelectSeq(sent, LAMBDA q : q.kind = "page")

\* the server has answered a page request of this call with no record at all
Stalled == \E i \in 1..Len(pages) : Len(pages[i].recs) = 0

\* C1: pagination completeness. While fetch_items pages, the page requests it
\* has issued are numbered 1, 2, 3, ... in that order; and when it returns
\* with no request having failed, against a server that declared cnt records
\* and serves srvPage per page, it returns exactly the cnt records and has
\* issued exactly ceil(cnt / srvPage) page requests.
C1_PaginationComplete ==
    (op = "fetch_items") =>
        /\ \A i \in 1..Len(PageRequests) : PageRequests[i].page = i
        /\ (pc = "done" /\ outcome = "list" /\ ~failed /\ ~Stalled) =>
              /\ Len(retList) = cnt
              /\ retList = [i \in 1..cnt |-> i]
              /\ Len(PageRequests) = CeilDiv(cnt, srvPage)

C1_Witness ==
    /\ op = "fetch_items"
    /\ pc = "done"
    /\ ~failed
    /\ ~Stalled
    /\ cnt = 3
    /\ srvPage = 2
    /\ Len(retList) = 3
    /\ Len(PageRequests) = 2

\* C2: mid-pagination failure is all-or-nothing. Once a request of a
\* fetch_items call has failed the call is over (no later request), and it
\* has returned the empty list whatever it had accumulated.
C2_AllOrNothing ==
    (op = "fetch_items" /\ failed) =>
        /\ pc = "done"
        /\ outcome = "list"
        /\ retList = <<>>
        /\ sent # <<>> => sent[Len(sent)].kind = IF Len(sent) = 1 THEN "count"
                                                 ELSE "page"

C2_Witness ==
    /\ op = "fetch_items"
    /\ failed
    /\ pc = "done"
    /\ Len(PageRequests) = 2
    /\ Len(data) > 0
    /\ retList = <<>>

\* C3: token reuse. A token request is only ever issued in a state whose
\* cached token is absent or expired, one at a time; a call issues at most
\* one; and a checking call that found the token expired has issued exactly
\* one by the time it is past its refresh.
C3_TokenReuse ==
    [][/\ (tokenRequests' # tokenRequests) =>
             /\ ~(token.present /\ token.exp > now)
             /\ tokenRequests' = tokenRequests + 1
       /\ callTokenReqs' <= 1
       /\ (op' \in CheckedOps /\ pc' # "refresh") =>
             (callTokenReqs' = IF expiredAtCall' THEN 1 ELSE 0)]_vars

C3_Witness ==
    /\ op \in CheckedOps
    /\ pc = "done"
    /\ outcome # "raise"
    /\ expiredAtCall
    /\ callTokenReqs = 1
    /\ tokenRequests = 2
    /\ token.exp > now

\* C9: zero-count short-circuit. While the count of a fetch_items or
\* powerquery call is 0 the call issues no page request, and it returns the
\* empty list.
C9_ZeroCount ==
    (op \in PagedOps /\ cnt = 0) =>
        /\ PageRequests = <<>>
        /\ pc \notin {"page_send", "page_recv"}
        /\ (pc = "done" /\ outcome = "list") => retList = <<>>

C9_Witness ==
    /\ op \in PagedOps
    /\ pc = "done"
    /\ outcome = "list"
    /\ cnt = 0
    /\ Len(sent) = 1
    /\ retList = <<>>

\* C4: every request the client sends to a resource endpoint carries a token
\* that is unexpired at the moment the request leaves.
C4_NoExpiredRequest ==
    \A i \in 1..Len(sent) : sent[i].auth = "valid"

\* C5: once a token exchange has failed and no fresh token has been obtained
\* since, no resource request leaves the client (it would carry a missing or
\* expired Authorization header); the call surfaces the failure instead.
C5_NoRequestAfterTokenFailure ==
    tokenFailed => \A i \in 1..Len(sent) : sent[i].auth = "valid"

\* C6: resource_count always ends by returning an integer, 0 when anything
\* in the call failed, and never by raising.
C6_CountNeverRaises ==
    (op = "resource_count" /\ pc = "done") =>
        /\ outcome = "int"
        /\ (failed \/ tokenFailed) => retNum = 0

\* C7: post_data returns the declared ID exactly when the response declares
\* insert_count == 1 and status SUCCESS, and None in every other case; it
\* never raises.
C7_PostDiscrimination ==
    (op = "post_data" /\ pc = "done") =>
        IF resp.kind = "post" /\ resp.insert_count = 1
           /\ resp.status = "SUCCESS"
        THEN outcome = "int" /\ retNum = resp.id
        ELSE outcome = "None"

\* C8: a powerquery call whose count request or page request fails returns
\* the empty list at once, with the validation failure reported apart from
\* the generic one; it never raises and never returns partial records.
C8_PowerqueryFailsSoft ==
    (op = "powerquery" /\ failed) =>
        /\ pc = "done"
        /\ outcome = "list"
        /\ retList = <<>>
        /\ ~("pq_validation" \in diag /\ "pq_message" \in diag)

\* C10: no public operation ends by raising to its caller.
C10_NothingPropagates ==
    (pc = "done" /\ op # "init") => outcome # "raise"

\* the token is usable at time t: one is cached and t is before its expiration
Usable(tok, t) == tok.present /\ t < tok.exp

C12_CredentialsFixed == [][creds' = creds]_vars

\* C13: envelope unwrap. A page answer of fetch_items that holds a single
\* object adds exactly one record and the loop goes on (or returns) without
\* a failure; an answer that holds a list of k records adds k.
C13_EnvelopeUnwrap ==
    [][(op = "fetch_items" /\ Len(pages') = Len(pages) + 1) =>
         LET a == pages'[Len(pages')]
         IN /\ (a.shape = "object") =>
                  /\ Len(data') = Len(data) + 1
                  /\ data'[Len(data')] = a.recs[1]
                  /\ ~failed'
                  /\ pc' \in {"page_send", "done"}
                  /\ outcome' # "raise"
            /\ (a.shape = "list") => Len(data') = Len(data) + Len(a.recs)]_vars

C13_Witness ==
    /\ op = "fetch_items"
    /\ pc = "done"
    /\ cnt = 3
    /\ Len(pages) = 2
    /\ pages[1].shape = "list"
    /\ pages[2].shape = "object"
    /\ retList = <<1, 2, 3>>

\* C14: a cached token expires at the time of the exchange that issued it
\* plus the expires_in of that exchange, and the cached token changes only
\* in a token exchange.
C14_ExpirationFromExchange ==
    /\ [](token.present =>
            (token.exp = issued.at + issued.ttl /\ issued.at <= now))
    /\ [][(token' # token) =>
            /\ pc = "refresh"
            /\ tokenRequests' = tokenRequests + 1
            /\ issued'.at = now
            /\ token'.exp = now + issued'.ttl]_vars

C14_Witness ==
    /\ op \in CheckedOps
    /\ pc = "done"
    /\ callTokenReqs = 1
    /\ token.has_access
    /\ issued.at = 1
    /\ issued.ttl = 2
    /\ token.exp = 3

\* C15: unsynchronized refresh. A caller inside _access_token() goes to the
\* token endpoint exactly when the cached token is absent or expired at that
\* moment, whatever the other callers have in flight, and every such caller
\* has seen the token expired; so two callers that both saw the one expiry
\* can each have a token request of its own in flight (callers in threads of
\* their own: a coroutine does not await between its check and its exchange).
C15_UnsynchronizedRefresh ==
    /\ [](\A i \in Tasks :
            tasks[i].pc \in {"refresh", "token_wait"} => tasks[i].obs)
    /\ [][\A i \in Tasks :
            (tasks[i].pc = "refresh" /\ tasks'[i].pc # "refresh") =>
               IF Usable(token, now)
               THEN /\ tasks'[i].pc # "token_wait"
                    /\ tokenRequests' = tokenRequests
               ELSE /\ tasks'[i].pc = "token_wait"
                    /\ tokenRequests' = tokenRequests + 1]_vars

\* both callers saw the token expired and both token requests are in flight
C15_Witness ==
    /\ mode = "threads"
    /\ \A i \in Tasks : /\ tasks[i].op \in {"fetch_item", "post_data"}
                        /\ tasks[i].pc = "token_wait"
                        /\ tasks[i].obs
    /\ ~Usable(token, now)
    /\ tokenRequests = 3

\* fetch_items of caller i is between its count request and its return
Paginating(i) ==
    /\ tasks[i].op = "fetch_items"
    /\ tasks[i].pc \in {"count_recv", "page_send", "page_recv"}

\* C16 as stated: no operation blocks an unrelated one. While fetch_items of
\* one coroutine is paginating, a fetch_item of another coroutine of the same
\* event loop that awaits its answer can take its next step.
C16_NoBlocking ==
    \A i \in Tasks : \A j \in Tasks \ {i} :
        (mode = "loop" /\ Paginating(i)
            /\ tasks[j].op = "fetch_item" /\ tasks[j].pc = "recv")
        => ENABLED TaskNext(j)

\* C16, amended: fetch_items does not await, so on one event loop it holds
\* the loop from its count request to its return: while it is paginating no
\* other coroutine of that loop takes a step, and a fetch_item issued
\* alongside completes only after fetch_items has returned.
C16_PagingHoldsLoop ==
    [][\A i \in Tasks :
          (mode = "loop" /\ Paginating(i)) =>
              /\ running = i
              /\ \A j \in Tasks \ {i} : tasks'[j] = tasks[j]]_vars

\* caller 1 is at its second page while caller 2's fetch_item awaits its answer
C16_Witness ==
    /\ mode = "loop"
    /\ Paginating(1)
    /\ tasks[1].pc = "page_recv"
    /\ tasks[1].page = 2
    /\ tasks[2].op = "fetch_item"
    /\ tasks[2].pc = "recv"

\* C17: bounded pagination. As long as no page answer came back empty, a
\* fetch_items or powerquery call has issued at most cnt page requests; and
\* nothing but the count ends the loop: a call returns after a successful
\* page only once the accumulated length has reached cnt.
C17_BoundedPagination ==
    /\ []((op \in PagedOps /\ ~Stalled) => Len(PageRequests) <= cnt)
    /\ [][(op \in PagedOps /\ pc = "page_recv" /\ pc' = "done" /\ ~failed')
            => Len(data') >= cnt]_vars

C17_Witness ==
    /\ op \in PagedOps
    /\ pc = "done"
    /\ ~failed
    /\ ~Stalled
    /\ cnt = 3
    /\ Len(PageRequests) = 3

\* C18: no retries. Within a call no page number is requested twice, the
\* count request and the token request are issued at most once, a
\* single-request call sends at most one request, and a call whose request
\* (or token exchange) failed is over without any further request.
C18_NoRetries ==
    /\ \A i, j \in 1..Len(PageRequests) :
          i # j => PageRequests[i].page # PageRequests[j].page
    /\ Cardinality({i \in 1..Len(sent) : sent[i].kind = "count"}) <= 1
    /\ op \in SingleOps => Len(sent) <= 1
    /\ callTokenReqs <= 1
    /\ failed => pc = "done"
    /\ (op \in CheckedOps /\ callTokenReqs > 0 /\ tokenFailed) =>
          (pc = "done" /\ sent = <<>>)

C18_Witness ==
    /\ op = "powerquery"
    /\ pc = "done"
    /\ failed
    /\ Len(PageRequests) = 3
    /\ PageRequests[3].page = 3

\* the number of records the page answers received so far hold
RECURSIVE Flat(_)
Flat(pp) ==
    IF pp = <<>> THEN <<>>
    ELSE Flat(SubSeq(pp, 1, Len(pp) - 1)) \o pp[Len(pp)].recs

\* C19: strictly sequential paging. No page is requested before the count
\* request has been answered; every page request but the one in flight has
\* been answered, so at most one is in flight; and page n + 1 is requested
\* only when the answers to pages 1..n are in the accumulator.
C19_SequentialPaging ==
    (op \in PagedOps) =>
        /\ pc \in {"refresh", "count_send", "count_recv"} => PageRequests = <<>>
        /\ PageRequests # <<>> => sent[1].kind = "count"
        /\ Len(PageRequests) =
             Len(pages) + (IF pc = "page_recv" \/ (failed /\ Len(sent) > 1)
                           THEN 1 ELSE 0)
        /\ page_number = Len(pages) + 1
        /\ Len(data) = Len(Flat(pages))

C19_Witness ==
    /\ op \in PagedOps
    /\ pc = "page_recv"
    /\ page_number = 2
    /\ Len(PageRequests) = 2
    /\ Len(pages) = 1
    /\ Len(data) > 0

\* C20: the accumulator only grows and keeps the order. In a fetch_items or
\* powerquery call a step never shortens data nor changes what it already
\* holds; and a call that returns without a failure returns the records of
\* the pages it fetched, page after page in each page's order, the last page
\* being the first at which the accumulated length reached cnt.
C20_AccumulatorOrdered ==
    /\ []((op \in PagedOps /\ pc = "done" /\ outcome = "list" /\ ~failed) =>
            /\ retList = Flat(pages)
            /\ pages # <<>> =>
                 /\ Len(Flat(pages)) >= cnt
                 /\ Len(Flat(SubSeq(pages, 1, Len(pages) - 1))) < cnt)
    /\ [][(op \in PagedOps /\ op' = op) =>
            /\ Len(data') >= Len(data)
            /\ SubSeq(data', 1, Len(data)) = data]_vars

C20_Witness ==
    /\ op = "powerquery"
    /\ pc = "done"
    /\ ~failed
    /\ Len(pages) = 2
    /\ pages[1].recs = <<1, 2>>
    /\ pages[2].recs = <<3>>
    /\ retList = <<1, 2, 3>>

\* C21: PowerQuery protocol. A powerquery call POSTs first to endpoint/count
\* and then to the endpoint with page = 1, 2, 3, ... in steps of one, every
\* request with the same body: the serialised args, or the literal {} when
\* args are left out or empty. It asks for a page only while it holds fewer
\* records than the count, and when no request failed and no page came back
\* empty it returns exactly the count's records, after ceil(cnt/page size)
\* pages.
C21_PowerqueryProtocol ==
    (op = "powerquery") =>
        /\ \A i \in 1..Len(sent) :
              /\ sent[i].method = "POST"
              /\ sent[i].kind = (IF i = 1 THEN "count" ELSE "page")
              /\ sent[i].page = i - 1
              /\ sent[i].body =
                    (IF args \in {"none", "empty"} THEN "{}" ELSE "{\"a\": 1}")
        /\ pc \in {"page_send", "page_recv"} => Len(data) < cnt
        /\ pc = "page_send" => Len(sent) = page_number
        /\ (pc = "done" /\ outcome = "list" /\ ~failed /\ ~Stalled) =>
              /\ retList = [i \in 1..cnt |-> i]
              /\ Len(PageRequests) = CeilDiv(cnt, srvPage)

\* powerquery called without args went through a count of 3 in two pages
C21_Witness ==
    /\ op = "powerquery"
    /\ args = "none"
    /\ pc = "done"
    /\ outcome = "list"
    /\ ~failed
    /\ ~Stalled
    /\ cnt = 3
    /\ srvPage = 2
    /\ Len(retList) = 3
    /\ Len(sent) = 3
    /\ sent[3].body = "{}"

\* C22: re-construction keeps the cached token. Constructing Client again
\* changes the credentials only; while the cached token is unexpired the
\* construction issues no token request, leaves the cached token and its
\* expiration as they are and puts that token into the headers; and a request
\* carries the headers as they stand, so until the token expires requests
\* carry the token that was issued under the earlier credentials.
C22_ReconstructionKeepsToken ==
    /\ [][(op = "idle" /\ op' = "init") =>
             /\ token' = token
             /\ issued' = issued
             /\ headers' = headers
             /\ tokenRequests' = tokenRequests]_vars
    /\ [][(op = "init" /\ pc = "refresh" /\ pc' # "refresh"
                /\ Usable(token, now)) =>
             /\ tokenRequests' = tokenRequests
             /\ token' = token
             /\ issued' = issued
             /\ token.has_access =>
                    /\ headers'.present
                    /\ headers'.exp = token.exp
                    /\ headers'.creds = token.creds]_vars
    /\ [][Len(sent') > Len(sent) =>
             /\ headers' = headers
             /\ sent'[Len(sent')].auth =
                    (IF ~headers.present THEN "missing"
                     ELSE IF headers.exp > now THEN "valid" ELSE "expired")]_vars

\* the client was constructed again with other credentials while its token
\* was good, and a request went out with the token of the first construction
C22_Witness ==
    /\ tokenRequests = 1
    /\ Usable(token, now)
    /\ creds # token.creds
    /\ headers.present
    /\ headers.creds = token.creds
    /\ headers.exp = token.exp
    /\ op = "fetch_item"
    /\ Len(sent) = 1
    /\ sent[1].auth = "valid"

====
